---- MODULE Spec2Model ----
(***************************************************************************)
(* IntelliFyle: the file-event ingestion and indexing core.                *)
(*                                                                         *)
(* Three parties act on two shared resources (the filesystem and the       *)
(* SQLite store holding the tables "files" and "file_events"):             *)
(*   - the main thread of main.py (start_system / stop_system),            *)
(*   - the watchdog observer thread, which dispatches one notification at  *)
(*     a time to FileMonitor.on_created/on_modified/on_deleted/on_moved,   *)
(*     which in turn call DatabaseManager.add_file/update_file/remove_file,*)
(*   - the Streamlit process (appp.py), whose functions read and write the *)
(*     same store with their own sessions,                                 *)
(* and other programs change the filesystem at any time.                   *)
(*                                                                         *)
(* A function of appp.py is one step; delete_file is called for a row of   *)
(* the listing as the table stands.                                        *)
(*                                                                         *)
(* Abstractions: a path is its file name, written as a tuple of characters *)
(* so that splitext and lower() are computed; a directory has no children; *)
(* the clock (time.time(), datetime.now(), the filesystem's stamps) is the  *)
(* number of external and user operations so far; st_ctime is the time of  *)
(* creation; FileEvent.timestamp, file_name and the ML organizer's own     *)
(* table file_usage are left out (the MLOrganizer methods called by the    *)
(* store never touch "files", "file_events" or the watched directories).   *)
(* A handler is cut into steps where the others can come in between with  *)
(* an effect: before it reads, between its reads and its commit, between   *)
(* its commit and its log entry.  A sleep is folded into the step before   *)
(* it: while the handler sleeps it reads and writes nothing, so what the   *)
(* others do meanwhile is seen at the handler's next read.                 *)
(***************************************************************************)
EXTENDS Integers, Sequences, FiniteSets, Bags, TLC

\* ------------------------------------------------------------------ bounds
PathA == <<"a", ".", "T", "X", "T">>
PathB == <<"b", ".", "f", "l", "v">>
Paths == {PathA, PathB}

MaxSize == 2
MaxOps == 2
MaxQueue == 2
MaxBurst == 2
MaxLen == 5
\* monitor.py clears processed_events when it holds more than 1000 keys;
\* the model uses a small limit so that the clearing happens.
ProcessedLimit == 1

Sizes == 1..MaxSize
\* the ids a row can have: every operation inserts at most one row
FileIds == 1..(Cardinality(Paths) + MaxOps)

None == [none |-> TRUE]

\* ------------------------------------------------- os.path.splitext, lower
upper_to_lower == [c \in {"A","B","C","D","E","F","G","H","I","J","K","L","M",
                           "N","O","P","Q","R","S","T","U","V","W","X","Y","Z"} |->
    CASE c = "A" -> "a" [] c = "B" -> "b" [] c = "C" -> "c" [] c = "D" -> "d"
      [] c = "E" -> "e" [] c = "F" -> "f" [] c = "G" -> "g" [] c = "H" -> "h"
      [] c = "I" -> "i" [] c = "J" -> "j" [] c = "K" -> "k" [] c = "L" -> "l"
      [] c = "M" -> "m" [] c = "N" -> "n" [] c = "O" -> "o" [] c = "P" -> "p"
      [] c = "Q" -> "q" [] c = "R" -> "r" [] c = "S" -> "s" [] c = "T" -> "t"
      [] c = "U" -> "u" [] c = "V" -> "v" [] c = "W" -> "w" [] c = "X" -> "x"
      [] c = "Y" -> "y" [] c = "Z" -> "z"]

lower(s) == [i \in 1..Len(s) |->
               IF s[i] \in DOMAIN upper_to_lower THEN upper_to_lower[s[i]] ELSE s[i]]

\* index of the last "." of the name, 0 when there is none
rfind_dot(s) ==
    LET dots == {i \in 1..Len(s) : s[i] = "."}
    IN  IF dots = {} THEN 0 ELSE CHOOSE i \in dots : \A j \in dots : j <= i

\* os.path.splitext(p)[1]: the suffix from the last dot on, provided some
\* character before that dot is not a dot (leading dots are no extension)
splitext(s) ==
    LET d == rfind_dot(s)
    IN  IF d > 0 /\ \E i \in 1..(d - 1) : s[i] # "."
        THEN SubSeq(s, d, Len(s))
        ELSE <<>>

\* ------------------------------------- DatabaseManager.get_file_type
type_map_document == { <<".","t","x","t">>, <<".","d","o","c">>, <<".","d","o","c","x">>,
                       <<".","p","d","f">>, <<".","p","p","t","x">>, <<".","x","l","s","x">> }
type_map_image == { <<".","j","p","g">>, <<".","j","p","e","g">>, <<".","p","n","g">>,
                    <<".","g","i","f">>, <<".","b","m","p">>, <<".","s","v","g">>,
                    <<".","w","e","b","p">> }
type_map_video == { <<".","m","p","4">>, <<".","a","v","i">>, <<".","m","o","v">>,
                    <<".","m","k","v">>, <<".","w","m","v">>, <<".","f","l","v">> }
type_map_audio == { <<".","m","p","3">>, <<".","w","a","v">>, <<".","m","4","a">>,
                    <<".","f","l","a","c">>, <<".","a","a","c">> }
type_map_archive == { <<".","z","i","p">>, <<".","r","a","r">>, <<".","7","z">> }
type_map_other == { <<".","p","y">>, <<".","j","a","v","a">>, <<".","j","s">>,
                    <<".","h","t","m","l">>, <<".","c","s","s">>, <<".","c","p","p">>,
                    <<".","c">> }
type_map_keys == type_map_document \cup type_map_image \cup type_map_video
                 \cup type_map_audio \cup type_map_archive \cup type_map_other

\* a get_file_type that indexes type_map instead of calling get with a default
get_file_type_indexed(file_path) ==
    LET extension == lower(splitext(file_path))
    IN  CASE extension \in type_map_document -> "document"
          [] extension \in type_map_image -> "image"
          [] extension \in type_map_video -> "video"
          [] extension \in type_map_audio -> "audio"
          [] extension \in type_map_archive -> "archive"
          [] extension \in type_map_other -> "other"
          [] OTHER -> "KeyError"

\* type_map.get(extension, 'other')
get_file_type(file_path) ==
    LET extension == lower(splitext(file_path))
    IN  CASE extension \in type_map_document -> "document"
          [] extension \in type_map_image -> "image"
          [] extension \in type_map_video -> "video"
          [] extension \in type_map_audio -> "audio"
          [] extension \in type_map_archive -> "archive"
          [] OTHER -> "other"

\* ------------------------------------------------ appp.get_file_type
ui_get_file_type(filename) ==
    LET extension == lower(splitext(filename))
    IN  CASE extension \in type_map_document -> "document"
          [] extension \in type_map_image -> "image"
          [] extension \in (type_map_video \ { <<".","f","l","v">> }) -> "video"
          [] extension \in (type_map_audio \ { <<".","a","a","c">> }) -> "audio"
          [] extension \in type_map_archive -> "archive"
          [] OTHER -> "other"

\* ------------------------------------------------------------------- state
VARIABLES
    fs,               \* the filesystem: path -> entry (kind, size, mtime, ctime)
    files,            \* table "files": a set of rows
    file_events,      \* table "file_events", in insertion order
    queue,            \* the observer's queue of raw notifications
    pc,               \* position of the observer thread inside a handler
    cur,              \* the notification being handled
    st,               \* the os.stat result held by the handler
    existing,         \* the row loaded by the handler's query (existing_file / file)
    processed_events, \* FileMonitor.processed_events
    callbacks,        \* calls of the callback passed to start_monitoring
    main,             \* position of the main thread in start_system / stop_system
    observer,         \* the watchdog observer thread
    running,          \* IntelliFyleSystem.running
    frontend,         \* the Streamlit process is up
    uiResult,         \* what the appp.py function of the last step returned
    trashed,          \* the rows whose file delete_file removed from disk
    last_applied,     \* the notification whose Modified transition was committed last
    home,             \* which of the folders_to_watch exist
    watches,          \* the folders start_monitoring scheduled, and those it warned of
    filename,         \* the name given to get_file_type
    category,         \* what get_file_type returned for it
    ops               \* number of external and user operations so far

storeVars == <<files, file_events>>
handlerVars == <<pc, cur, st, existing>>
watchVars == <<queue, pc, cur, st, existing, processed_events, callbacks>>
sysVars == <<main, observer, running, frontend>>
ghostVars == <<uiResult, trashed, last_applied>>
classifierVars == <<filename, category>>
vars == <<fs, files, file_events, queue, pc, cur, st, existing, processed_events,
          callbacks, main, observer, running, frontend, uiResult,
          trashed, last_applied, home, watches, filename, category, ops>>

NoEntry == [kind |-> "none", size |-> 0, mtime |-> 0, ctime |-> 0]
DirEntry == [kind |-> "dir", size |-> 0, mtime |-> 0, ctime |-> 0]
FileEntry(sz, m, c) == [kind |-> "file", size |-> sz, mtime |-> m, ctime |-> c]

\* os.path.exists / os.path.isfile / os.path.isdir
exists(p) == fs[p].kind # "none"
isfile(p) == fs[p].kind = "file"
isdir(p) == fs[p].kind = "dir"

\* session.query(File).filter(File.file_path == p).first()
RowsOf(tbl, p) == {r \in tbl : r.file_path = p}
query_first(tbl, p) ==
    IF RowsOf(tbl, p) = {} THEN None
    ELSE CHOOSE r \in RowsOf(tbl, p) : \A o \in RowsOf(tbl, p) : r.id <= o.id

\* the id SQLite gives a new row of an INTEGER PRIMARY KEY table: max(id) + 1
next_id(tbl) ==
    IF tbl = {} THEN 1
    ELSE (CHOOSE i \in {r.id : r \in tbl} : \A r \in tbl : r.id <= i) + 1

\* a file_path column declared without unique=True
violates_unique_never(tbl, p) == FALSE

\* the unique index on files.file_path
violates_unique(tbl, p) == RowsOf(tbl, p) # {}

\* a raw notification; t is the clock's reading when the change was made
NoEvent == [kind |-> "none", src |-> <<>>, dest |-> <<>>, is_directory |-> FALSE, t |-> 0]
Notif(k, p, d, isd) == [kind |-> k, src |-> p, dest |-> d, is_directory |-> isd,
                        t |-> ops + 1]

\* the observer queues a notification only while it runs
emit(q, n) == IF observer = "running" THEN Append(q, n) ELSE q
room_for(k) == observer = "running" => Len(queue) + k <= MaxQueue
room == room_for(1)

\* the clock's reading during the operation that is number ops + 1
now == ops + 1

\* processed_events: the keys built at the clock's present reading, and the
\* number of the older ones, which no later key equals
NoKeys == [fresh |-> {}, stale |-> 0]

\* the path is on disk again: its rows are no longer the trash of a delete
untrash(t, p) == {r \in t : r.file_path # p}

\* What earlier runs and other programs have left for a path when the
\* program starts: nothing; a file the program has never seen; a file and
\* the row add_file inserted for it; that row and no file any more.  The
\* store is a file on disk and outlives the process.
Pasts == {"absent", "untracked", "live", "tombstoned"}
past_entry(w) == IF w \in {"untracked", "live"} THEN FileEntry(1, 0, 0) ELSE NoEntry
past_file == FileEntry(1, 0, 0)
past_tracked(was) == {p \in Paths : was[p] \in {"live", "tombstoned"}}
\* ids in the order of insertion: PathA's row before PathB's
past_id(was, p) == IF p = PathB /\ PathA \in past_tracked(was) THEN 2 ELSE 1
past_rows(was) ==
    {[id |-> past_id(was, p), file_path |-> p, file_extension |-> lower(splitext(p)),
      file_size |-> past_file.size, file_type |-> get_file_type(p),
      created_time |-> past_file.ctime, modified_time |-> past_file.mtime,
      last_accessed |-> 0, access_count |-> 1] : p \in past_tracked(was)}

\* the folders start_monitoring watches; the paths of the model lie under
\* folders that exist
folders_to_watch == <<"~/Desktop", "~/Documents", "~/Downloads", "~/Pictures", "~/Videos">>
Folders == {folders_to_watch[i] : i \in 1..Len(folders_to_watch)}
NoWatches == [scheduled |-> {}, not_found |-> {}]

\* nothing has run yet: no thread, no notification, no call
NotStarted ==
    /\ file_events = <<>>
    /\ queue = <<>>
    /\ pc = "idle"
    /\ cur = NoEvent
    /\ st = None
    /\ existing = None
    /\ processed_events = NoKeys
    /\ callbacks = <<>>
    /\ main = "init"
    /\ observer = "none"
    /\ running = FALSE
    /\ frontend = FALSE
    /\ uiResult = None
    /\ trashed = {}
    /\ last_applied = NoEvent
    /\ watches = NoWatches
    /\ category = None
    /\ ops = 0

Init ==
    /\ \E was \in [Paths -> Pasts] :
         /\ fs = [p \in Paths |-> past_entry(was[p])]
         /\ files = past_rows(was)
    /\ home = [f \in Folders |-> TRUE]
    /\ filename = <<>>
    /\ NotStarted

\* ------------------------------------------- other programs and the clock
\* Another program creates, rewrites, deletes or renames a file under a
\* watched root; the observer, when running, queues the notification.
\* A new file has one byte and a rewrite changes the size.
ExtCreate(p) ==
    /\ ops < MaxOps /\ room
    /\ ~exists(p)
    /\ fs' = [fs EXCEPT ![p] = FileEntry(1, now, now)]
    /\ queue' = emit(queue, Notif("created", p, <<>>, FALSE))
    /\ ops' = ops + 1
    /\ UNCHANGED <<storeVars, handlerVars, processed_events, callbacks, sysVars>>
    /\ UNCHANGED <<home, watches, classifierVars>>
    /\ uiResult' = None /\ trashed' = untrash(trashed, p)
    /\ last_applied' = last_applied

\* Another program makes a directory; the handlers return at once for its
\* notification (event.is_directory).
ExtMkdir(p) ==
    /\ ops < MaxOps /\ room
    /\ ~exists(p)
    /\ fs' = [fs EXCEPT ![p] = DirEntry]
    /\ queue' = emit(queue, Notif("created", p, <<>>, TRUE))
    /\ ops' = ops + 1
    /\ UNCHANGED <<storeVars, handlerVars, processed_events, callbacks, sysVars>>
    /\ UNCHANGED <<home, watches, classifierVars>>
    /\ uiResult' = None /\ trashed' = untrash(trashed, p)
    /\ last_applied' = last_applied

\* Another program replaces a file by a directory of the same name (an
\* unlink and a mkdir in a row): two notifications, the second one flagged
\* as a directory event.
ExtReplaceByDir(p) ==
    /\ ops < MaxOps /\ room_for(2)
    /\ isfile(p)
    /\ fs' = [fs EXCEPT ![p] = DirEntry]
    /\ queue' = emit(emit(queue, Notif("deleted", p, <<>>, FALSE)),
                     Notif("created", p, <<>>, TRUE))
    /\ ops' = ops + 1
    /\ UNCHANGED <<storeVars, handlerVars, processed_events, callbacks, sysVars>>
    /\ UNCHANGED <<home, watches, classifierVars>>
    /\ uiResult' = None /\ trashed' = trashed
    /\ last_applied' = last_applied

\* One write makes the operating system send k notifications in a row.
burst(q, n, k) == q \o [i \in 1..k |-> n]

ExtModify(p, sz, k) ==
    /\ ops < MaxOps /\ room_for(k)
    /\ isfile(p) /\ sz # fs[p].size
    /\ fs' = [fs EXCEPT ![p] = FileEntry(sz, now, fs[p].ctime)]
    /\ queue' = IF observer = "running"
                THEN burst(queue, Notif("modified", p, <<>>, FALSE), k)
                ELSE queue
    /\ ops' = ops + 1
    /\ UNCHANGED <<storeVars, handlerVars, processed_events, callbacks, sysVars>>
    /\ UNCHANGED <<home, watches, classifierVars>>
    /\ uiResult' = None /\ trashed' = trashed
    /\ last_applied' = last_applied

ExtDelete(p) ==
    /\ ops < MaxOps /\ room
    /\ isfile(p)
    /\ fs' = [fs EXCEPT ![p] = NoEntry]
    /\ queue' = emit(queue, Notif("deleted", p, <<>>, FALSE))
    /\ ops' = ops + 1
    /\ UNCHANGED <<storeVars, handlerVars, processed_events, callbacks, sysVars>>
    /\ UNCHANGED <<home, watches, classifierVars>>
    /\ uiResult' = None /\ trashed' = trashed
    /\ last_applied' = last_applied

ExtMove(p, q) ==
    /\ ops < MaxOps /\ room
    /\ isfile(p) /\ ~exists(q)
    /\ fs' = [fs EXCEPT ![p] = NoEntry, ![q] = fs[p]]
    /\ queue' = emit(queue, Notif("moved", p, q, FALSE))
    /\ ops' = ops + 1
    /\ UNCHANGED <<storeVars, handlerVars, processed_events, callbacks, sysVars>>
    /\ UNCHANGED <<home, watches, classifierVars>>
    /\ uiResult' = None /\ trashed' = untrash(trashed, q)
    /\ last_applied' = last_applied

\* time.time() advances: no key computed from now on equals a stored one
age(pe) == [fresh |-> {}, stale |-> pe.stale + Cardinality(pe.fresh)]

Tick ==
    /\ processed_events.fresh # {}
    /\ processed_events' = age(processed_events)
    /\ UNCHANGED <<fs, ops, storeVars, queue, handlerVars, callbacks, sysVars>>
    /\ UNCHANGED <<home, watches, classifierVars>>
    /\ uiResult' = None /\ UNCHANGED <<trashed, last_applied>>

\* --------------------------------------------------- FileMonitor handlers
\* the observer thread runs; after observer.stop() it still finishes the
\* handler it is in (observer.join() waits for it)
alive == observer = "running" \/ (observer = "stopping" /\ pc # "idle")

event_key(n) == <<n.kind, n.src, n.dest>>
seen(n) == event_key(n) \in processed_events.fresh
remember(pe, n) == [pe EXCEPT !.fresh = pe.fresh \cup {event_key(n)}]
size_of(pe) == Cardinality(pe.fresh) + pe.stale

\* the last statement of a handler: processed_events.clear() above the limit
clear_old(pe) == IF size_of(pe) > ProcessedLimit THEN NoKeys ELSE pe

\* the handler returns and the observer thread is free again
handler_returns ==
    /\ pc' = "idle" /\ cur' = NoEvent /\ st' = None /\ existing' = None
    /\ processed_events' = clear_old(processed_events)

\* an except clause that raises again: the exception leaves the handler
caught_reraised ==
    /\ pc' = "raised"
    /\ UNCHANGED <<cur, st, existing, processed_events>>

\* an except clause after which the log entry is written all the same
caught_then_logged ==
    /\ pc' = "af_log"
    /\ UNCHANGED <<cur, st, existing, processed_events>>

\* "except Exception as e: session.rollback(); logger.error(...)", then
\* session.close(): add_file or update_file returns, and so does the handler
caught == handler_returns

\* the path add_file works on: dest_path in on_moved, src_path otherwise
add_path == IF cur.kind = "moved" THEN cur.dest ELSE cur.src

\* The observer thread takes the next notification and enters its handler.
\* Every handler returns at once for a directory notification.  on_created
\* sleeps a second before it builds its key, which therefore is new, and
\* add_file sleeps again; the other three build and test the key at once.
Dispatch ==
    /\ observer = "running" /\ pc = "idle" /\ queue # <<>>
    /\ queue' = Tail(queue)
    /\ LET n == Head(queue) IN
         IF n.is_directory
         THEN UNCHANGED <<handlerVars, processed_events>>
         ELSE IF n.kind = "created"
         THEN /\ cur' = n /\ pc' = "af_read"
              /\ processed_events' = age(remember(age(processed_events), n))
              /\ UNCHANGED <<st, existing>>
         ELSE IF seen(n)
         THEN UNCHANGED <<handlerVars, processed_events>>
         ELSE /\ cur' = n
              /\ processed_events' = remember(processed_events, n)
              /\ pc' = IF n.kind = "modified" THEN "uf_read" ELSE "rf_query"
              /\ UNCHANGED <<st, existing>>
    /\ UNCHANGED <<home, watches, classifierVars>>
    /\ uiResult' = None
    /\ UNCHANGED <<fs, ops, storeVars, callbacks, sysVars, trashed, last_applied>>

\* ------------------------------------------------ DatabaseManager.add_file
Row(i, p, ext, sz, ty, c, m, a, n) ==
    [id |-> i, file_path |-> p, file_extension |-> ext, file_size |-> sz,
     file_type |-> ty, created_time |-> c, modified_time |-> m,
     last_accessed |-> a, access_count |-> n]

LogEntry(p, ty) == [file_path |-> p, event_type |-> ty]
\* a log_event that keeps the newest entry only
log_event_single(log, p, ty) == <<LogEntry(p, ty)>>

\* DatabaseManager.log_event
log_event(log, p, ty) == Append(log, LogEntry(p, ty))

\* The UPDATE a commit sends for a loaded row: WHERE id = the loaded id, SET
\* only the attributes whose new value differs from the loaded one.
\* last_accessed = datetime.now() always differs.  No row with that id:
\* the commit raises (StaleDataError) and the handler rolls back.
update_row(r, loaded, m, sz, a, n) ==
    [r EXCEPT !.modified_time = IF m # loaded.modified_time THEN m ELSE @,
              !.file_size = IF sz # loaded.file_size THEN sz ELSE @,
              !.last_accessed = a,
              !.access_count = IF n # loaded.access_count THEN n ELSE @]
\* an UPDATE without its WHERE clause
commit_update_all(tbl, loaded, m, sz, a, n) ==
    {update_row(r, loaded, m, sz, a, n) : r \in tbl}

commit_update(tbl, loaded, m, sz, a, n) ==
    {IF r.id = loaded.id THEN update_row(r, loaded, m, sz, a, n) ELSE r : r \in tbl}
stale(tbl, loaded) == \A r \in tbl : r.id # loaded.id

\* an add_file that inserts without looking for a row of the path
existing_file_unchecked(tbl, p) == None

\* existing_file = session.query(File).filter(File.file_path == file_path).first()
existing_file(tbl, p) == query_first(tbl, p)

\* os.path.exists and os.path.isfile, os.stat, and the query for the row
add_file_read ==
    /\ alive /\ pc = "af_read"
    /\ IF isfile(add_path)
       THEN /\ st' = fs[add_path]
            /\ existing' = existing_file(files, add_path)
            /\ pc' = "af_commit"
            /\ UNCHANGED <<cur, processed_events>>
       ELSE handler_returns
    /\ UNCHANGED <<fs, ops, storeVars, queue, callbacks, sysVars>>
    /\ UNCHANGED <<home, watches, classifierVars>>
    /\ uiResult' = None /\ UNCHANGED <<trashed, last_applied>>

\* an add_file that counts the access on the row it found
touch_existing_counting(tbl, loaded, s, t) ==
    commit_update(tbl, loaded, s.mtime, s.size, t, loaded.access_count + 1)

\* the attributes add_file sets on the row it found
touch_existing(tbl, loaded, s, t) ==
    commit_update(tbl, loaded, s.mtime, s.size, t, loaded.access_count)

\* a new row that starts uncounted, as the upload's row does
new_file_record_uncounted(tbl, p, s, t) ==
    Row(next_id(tbl), p, lower(splitext(p)), s.size, get_file_type(p),
        s.ctime, s.mtime, t, 0)

new_file_record(tbl, p, s, t) ==
    Row(next_id(tbl), p, lower(splitext(p)), s.size, get_file_type(p),
        s.ctime, s.mtime, t, 1)

\* session.commit(): the UPDATE of the existing row, or the INSERT of a new
\* one, which the unique index on file_path rejects if a row has appeared;
\* an exception is logged and add_file returns
add_file_commit ==
    /\ alive /\ pc = "af_commit"
    /\ IF existing # None /\ ~stale(files, existing)
       THEN /\ files' = touch_existing(files, existing, st, now)
            /\ pc' = "af_log"
            /\ UNCHANGED <<cur, st, existing, processed_events>>
       ELSE IF existing = None /\ ~violates_unique(files, add_path)
       THEN /\ files' = files \cup {new_file_record(files, add_path, st, now)}
            /\ pc' = "af_log"
            /\ UNCHANGED <<cur, st, existing, processed_events>>
       ELSE files' = files /\ caught
    /\ UNCHANGED <<home, watches, classifierVars>>
    /\ uiResult' = None
    /\ UNCHANGED <<trashed, last_applied>>
    /\ UNCHANGED <<fs, ops, file_events, queue, callbacks, sysVars>>

\* self.log_event(...), then callback("created", file_path), on the update
\* branch too; add_file and the handler return
\* an add_file that logs "updated" on both branches
add_file_event_updated(loaded) == "updated"

add_file_event(loaded) == IF loaded # None THEN "updated" ELSE "created"

add_file_log ==
    /\ alive /\ pc = "af_log"
    /\ file_events' = log_event(file_events, add_path, add_file_event(existing))
    /\ callbacks' = Append(callbacks, <<"created", add_path>>)
    /\ handler_returns
    /\ UNCHANGED <<fs, ops, files, queue, sysVars>>
    /\ UNCHANGED <<home, watches, classifierVars>>
    /\ uiResult' = None /\ UNCHANGED <<trashed, last_applied>>

\* --------------------------------------------- DatabaseManager.update_file
\* os.path.exists and the query; with no row for the path update_file calls
\* add_file, which sleeps first
update_file_read ==
    /\ alive /\ pc = "uf_read"
    /\ IF exists(cur.src)
       THEN /\ existing' = query_first(files, cur.src)
            /\ pc' = IF existing' # None THEN "uf_commit" ELSE "af_read"
            /\ processed_events' = IF existing' # None THEN processed_events
                                   ELSE age(processed_events)
            /\ UNCHANGED <<cur, st>>
       ELSE handler_returns
    /\ UNCHANGED <<fs, ops, storeVars, queue, callbacks, sysVars>>
    /\ UNCHANGED <<home, watches, classifierVars>>
    /\ uiResult' = None /\ UNCHANGED <<trashed, last_applied>>

\* an update_file that counts the access twice
bump_existing_twice(tbl, loaded, s, t) ==
    commit_update(tbl, loaded, s.mtime, s.size, t, loaded.access_count + 2)

\* the attributes update_file sets on the row it found
bump_existing(tbl, loaded, s, t) ==
    commit_update(tbl, loaded, s.mtime, s.size, t, loaded.access_count + 1)

\* os.stat, which raises if the path has vanished since the exists test,
\* the new attribute values and session.commit()
update_file_commit ==
    /\ alive /\ pc = "uf_commit"
    /\ IF exists(cur.src) /\ ~stale(files, existing)
       THEN /\ st' = fs[cur.src]
            /\ files' = bump_existing(files, existing, st', now)
            /\ pc' = "uf_log"
            /\ UNCHANGED <<cur, existing, processed_events>>
       ELSE files' = files /\ caught
    /\ last_applied' = IF pc' = "uf_log" THEN cur ELSE last_applied
    /\ UNCHANGED <<home, watches, classifierVars>>
    /\ uiResult' = None
    /\ trashed' = trashed
    /\ UNCHANGED <<fs, ops, file_events, queue, callbacks, sysVars>>

\* self.log_event(file_path, "modified"), then callback("modified", file_path)
update_file_log ==
    /\ alive /\ pc = "uf_log"
    /\ file_events' = log_event(file_events, cur.src, "modified")
    /\ callbacks' = Append(callbacks, <<"modified", cur.src>>)
    /\ handler_returns
    /\ UNCHANGED <<fs, ops, files, queue, sysVars>>
    /\ UNCHANGED <<home, watches, classifierVars>>
    /\ uiResult' = None /\ UNCHANGED <<trashed, last_applied>>

\* --------------------------------------------- DatabaseManager.remove_file
\* After remove_file on_deleted returns; on_moved sleeps and calls
\* add_file(dest_path), which sleeps again.
\* a remove_file that logs and calls back without a row
after_remove_logged ==
    /\ pc' = "rf_log"
    /\ UNCHANGED <<cur, st, existing, processed_events>>

after_remove ==
    IF cur.kind = "moved"
    THEN /\ pc' = "af_read"
         /\ processed_events' = age(processed_events)
         /\ UNCHANGED <<cur, st, existing>>
    ELSE handler_returns

remove_file_query ==
    /\ alive /\ pc = "rf_query"
    /\ IF query_first(files, cur.src) # None
       THEN /\ existing' = query_first(files, cur.src)
            /\ pc' = "rf_commit"
            /\ UNCHANGED <<cur, st, processed_events>>
       ELSE after_remove
    /\ UNCHANGED <<fs, ops, storeVars, queue, callbacks, sysVars>>
    /\ UNCHANGED <<home, watches, classifierVars>>
    /\ uiResult' = None /\ UNCHANGED <<trashed, last_applied>>

\* session.delete(file); session.commit(): DELETE ... WHERE id = the loaded
\* id (a DELETE that matches no row only warns)
delete_row(tbl, loaded) == {r \in tbl : r.id # loaded.id}

remove_file_commit ==
    /\ alive /\ pc = "rf_commit"
    /\ files' = delete_row(files, existing)
    /\ pc' = "rf_log"
    /\ UNCHANGED <<home, watches, classifierVars>>
    /\ uiResult' = None
    /\ UNCHANGED <<trashed, last_applied>>
    /\ UNCHANGED <<fs, ops, file_events, queue, cur, st, existing, processed_events,
                   callbacks, sysVars>>

\* self.log_event(file_path, "deleted"), then callback("deleted", file_path)
remove_file_log ==
    /\ alive /\ pc = "rf_log"
    /\ file_events' = log_event(file_events, cur.src, "deleted")
    /\ callbacks' = Append(callbacks, <<"deleted", cur.src>>)
    /\ after_remove
    /\ UNCHANGED <<fs, ops, files, queue, sysVars>>
    /\ UNCHANGED <<home, watches, classifierVars>>
    /\ uiResult' = None /\ UNCHANGED <<trashed, last_applied>>

\* ------------------------------------------------------- appp.py: reads
\* get_all_files: every row of the table
get_all_files == files
\* get_deleted_files: the rows whose path is not on disk (the trash)
get_deleted_files == {r \in files : ~exists(r.file_path)}

\* get_file_stats: count(), the sum of file_size in GB rounded to two
\* decimals (kept in hundredths of a GB), and the number of rows of each
\* type under its capitalized name
RECURSIVE sum_sizes(_)
sum_sizes(tbl) ==
    IF tbl = {} THEN 0
    ELSE LET r == CHOOSE x \in tbl : TRUE IN r.file_size + sum_sizes(tbl \ {r})

GB == 1024 * 1024 * 1024

\* round(n / d): to the nearest, a tie to the even one
round_half_even(n, d) ==
    LET q == n \div d
        r == n % d
    IN  IF 2 * r < d THEN q
        ELSE IF 2 * r > d THEN q + 1
        ELSE IF q % 2 = 0 THEN q ELSE q + 1

capitalize(ty) ==
    CASE ty = "document" -> "Document" [] ty = "image" -> "Image"
      [] ty = "video" -> "Video" [] ty = "audio" -> "Audio"
      [] ty = "archive" -> "Archive" [] ty = "other" -> "Other"
      [] ty = "folder" -> "Folder"

stats_of(tbl) ==
    [total_files |-> Cardinality(tbl),
     total_size_gb |-> round_half_even(sum_sizes(tbl) * 100, GB),
     type_counts |-> [ty \in {capitalize(r.file_type) : r \in tbl} |->
                        Cardinality({r \in tbl : capitalize(r.file_type) = ty})]]

get_file_stats == stats_of(files)

\* ---------------------------------------------------- appp.py: mutations
\* What a function returns: success and the count in the cleanup's message;
\* before is the count of the cleanup that returned just before this one.
NoCount == 0 - 1
Result(op, ok, n, before) == [op |-> op, success |-> ok, count |-> n, before |-> before]

\* handle_file_upload: write the bytes, then INSERT a row in a session of
\* its own.  open() fails on a directory; the unique index rejects the
\* INSERT if the path has a row, after the bytes were written.
upload_writes(p) == ~isdir(p)

\* an upload that goes on to the INSERT when the write has failed
upload_returns_unwritten(p) == ~violates_unique(files, p)

\* an upload whose INSERT no index turns down
upload_returns_written(p) == upload_writes(p)

upload_returns(p) == upload_writes(p) /\ ~violates_unique(files, p)
upload_record(tbl, p, e) ==
    Row(next_id(tbl), p, splitext(p), e.size, ui_get_file_type(p),
        e.ctime, e.mtime, now, 0)

handle_file_upload(p, sz) ==
    /\ frontend /\ ops < MaxOps /\ room
    /\ IF isfile(p) THEN sz # fs[p].size ELSE sz = 1
    /\ ops' = ops + 1
    /\ IF upload_writes(p)
       THEN /\ fs' = [fs EXCEPT ![p] =
                        FileEntry(sz, now, IF isfile(p) THEN fs[p].ctime ELSE now)]
            /\ queue' = emit(queue, Notif(IF isfile(p) THEN "modified" ELSE "created",
                                          p, <<>>, FALSE))
       ELSE UNCHANGED <<fs, queue>>
    /\ files' = IF upload_returns(p)
                THEN files \cup {upload_record(files, p, fs'[p])}
                ELSE files
    /\ UNCHANGED <<file_events, handlerVars, processed_events, callbacks, sysVars>>
    /\ UNCHANGED <<home, watches, classifierVars>>
    /\ uiResult' = Result("upload", upload_returns(p), 0, NoCount)
    /\ last_applied' = last_applied
    /\ trashed' = IF upload_writes(p) THEN untrash(trashed, p) ELSE trashed

\* create_new_folder: os.makedirs(exist_ok=True) fails on a regular file,
\* then INSERT of a row of type "folder"
folder_made(p) == ~isfile(p)
folder_returns(p) == folder_made(p) /\ ~violates_unique(files, p)
folder_record(tbl, p) == Row(next_id(tbl), p, <<>>, 0, "folder", now, now, now, 0)

create_new_folder(p) ==
    /\ frontend /\ ops < MaxOps /\ room
    /\ ops' = ops + 1
    /\ IF folder_made(p)
       THEN /\ fs' = [fs EXCEPT ![p] = DirEntry]
            /\ queue' = IF exists(p) THEN queue
                        ELSE emit(queue, Notif("created", p, <<>>, TRUE))
            /\ files' = IF folder_returns(p)
                        THEN files \cup {folder_record(files, p)}
                        ELSE files
       ELSE UNCHANGED <<fs, files, queue>>
    /\ UNCHANGED <<file_events, handlerVars, processed_events, callbacks, sysVars>>
    /\ UNCHANGED <<home, watches, classifierVars>>
    /\ uiResult' = Result("folder", folder_returns(p), 0, NoCount)
    /\ last_applied' = last_applied
    /\ trashed' = IF folder_made(p) THEN untrash(trashed, p) ELSE trashed

\* delete_file(file_id, file_path), called on "Move to Trash" with the id and
\* the path of a row the page lists; it returns success on both branches
delete_path(f, p) == [f EXCEPT ![p] = NoEntry]
delete_record(tbl, i) == {r \in tbl : r.id # i}

delete_file(file_id, file_path) ==
    /\ frontend /\ ops < MaxOps /\ room
    /\ \E r \in get_all_files : r.id = file_id /\ r.file_path = file_path
    /\ ops' = ops + 1
    /\ IF exists(file_path)
       THEN /\ fs' = delete_path(fs, file_path)
            /\ queue' = emit(queue, Notif("deleted", file_path, <<>>, isdir(file_path)))
            /\ files' = files
       ELSE /\ files' = delete_record(files, file_id)
            /\ UNCHANGED <<fs, queue>>
    /\ UNCHANGED <<file_events, handlerVars, processed_events, callbacks, sysVars>>
    /\ UNCHANGED <<home, watches, classifierVars>>
    /\ uiResult' = Result("delete", TRUE, 0, NoCount)
    /\ last_applied' = last_applied
    /\ trashed' = IF exists(file_path)
                  THEN trashed \cup RowsOf(files, file_path)
                  ELSE {r \in trashed : r.id # file_id}

\* a cleanup that tests os.path.isfile instead of os.path.exists
purged_not_file(tbl, f) == {r \in tbl : f[r.file_path].kind # "file"}

\* cleanup_deleted_files ("Sync Now", "Cleanup Trash")
\* the rows it deletes, and the count in its message
purged(tbl, f) == {r \in tbl : f[r.file_path].kind = "none"}
deleted_count(tbl, f) == Cardinality(purged(tbl, f))

cleanup_deleted_files ==
    /\ frontend
    /\ files' = files \ purged(files, fs)
    /\ UNCHANGED <<fs, ops, file_events, watchVars, sysVars>>
    /\ UNCHANGED <<home, watches, classifierVars>>
    /\ uiResult' = Result("cleanup", TRUE, deleted_count(files, fs),
                          IF uiResult # None /\ uiResult.op = "cleanup"
                          THEN uiResult.count ELSE NoCount)
    /\ last_applied' = last_applied
    /\ trashed' = {r \in trashed : exists(r.file_path)}

\* ------------------------------------------------------- main.py, monitor.py
resetHandler ==
    /\ queue' = <<>> /\ pc' = "idle" /\ cur' = NoEvent /\ st' = None /\ existing' = None
    /\ processed_events' = NoKeys

\* a create_all that drops what an earlier run has left
create_all_fresh(tbl, empty) == empty

\* Base.metadata.create_all(engine) creates the tables that are missing
\* (empty) and keeps a table that exists, with the rows of an earlier run
create_all(tbl, empty) == tbl

\* start_system: DatabaseManager().initialize_database()
initialize_database ==
    /\ main = "init"
    /\ main' = "db_ready"
    /\ files' = create_all(files, {}) /\ file_events' = create_all(file_events, <<>>)
    /\ UNCHANGED <<fs, ops, watchVars, observer, running, frontend>>
    /\ UNCHANGED <<home, watches, classifierVars>>
    /\ uiResult' = None /\ UNCHANGED <<trashed, last_applied>>

\* the loop of start_monitoring over folders_to_watch: a folder that exists
\* is scheduled, for one that does not a warning is logged and the loop
\* goes on with the next
\* a loop that ends at the first folder that does not exist
scheduled_folders_until_missing(h) ==
    {folders_to_watch[i] : i \in {j \in 1..Len(folders_to_watch) :
                                    \A k \in 1..j : h[folders_to_watch[k]]}}

scheduled_folders(h) == {f \in Folders : h[f]}
warned_folders(h) == {f \in Folders : ~h[f]}

\* start_monitoring: initialize_database() again, a new FileMonitor, the
\* roots are scheduled, observer.start()
start_monitoring ==
    /\ main = "db_ready"
    /\ main' = "monitoring"
    /\ watches' = [scheduled |-> scheduled_folders(home), not_found |-> warned_folders(home)]
    /\ observer' = "running"
    /\ resetHandler
    /\ files' = create_all(files, {}) /\ file_events' = create_all(file_events, <<>>)
    /\ UNCHANGED <<fs, ops, callbacks, running, frontend>>
    /\ UNCHANGED <<home, classifierVars>>
    /\ uiResult' = None /\ UNCHANGED <<trashed, last_applied>>

start_frontend ==
    /\ main = "monitoring"
    /\ main' = "frontend_up"
    /\ frontend' = TRUE
    /\ UNCHANGED <<fs, ops, storeVars, watchVars, observer, running>>
    /\ UNCHANGED <<home, watches, classifierVars>>
    /\ uiResult' = None /\ UNCHANGED <<trashed, last_applied>>

\* "while self.running: time.sleep(1)".  When the flag is false start_system
\* and main() return; the observer is a daemon thread and ends with the
\* process, wherever it is; the Streamlit subprocess stays up.
keep_alive ==
    /\ main = "frontend_up"
    /\ IF running
       THEN UNCHANGED <<main, observer, queue, handlerVars, processed_events>>
       ELSE /\ main' = "exited" /\ observer' = "dead" /\ resetHandler
    /\ UNCHANGED <<fs, ops, storeVars, callbacks, running, frontend>>
    /\ UNCHANGED <<home, watches, classifierVars>>
    /\ uiResult' = None /\ UNCHANGED <<trashed, last_applied>>

\* KeyboardInterrupt inside start_system: stop_system terminates the
\* frontend it started and calls observer.stop()
stop_system ==
    /\ main \in {"db_ready", "monitoring", "frontend_up"}
    /\ main' = "stopping"
    /\ running' = FALSE
    /\ frontend' = IF main = "frontend_up" THEN FALSE ELSE frontend
    /\ observer' = IF observer = "running" THEN "stopping" ELSE observer
    /\ UNCHANGED <<fs, ops, storeVars, watchVars>>
    /\ UNCHANGED <<home, watches, classifierVars>>
    /\ uiResult' = None /\ UNCHANGED <<trashed, last_applied>>

\* observer.join() returns once the observer thread has left its handler
stop_system_join ==
    /\ main = "stopping" /\ pc = "idle"
    /\ main' = "stopped"
    /\ observer' = IF observer = "stopping" THEN "stopped" ELSE observer
    /\ queue' = <<>>
    /\ UNCHANGED <<fs, ops, storeVars, handlerVars, processed_events, callbacks, running,
                   frontend>>
    /\ UNCHANGED <<home, watches, classifierVars>>
    /\ uiResult' = None /\ UNCHANGED <<trashed, last_applied>>

\* ------------------------------------------------------------ specification
External ==
    \/ \E p \in Paths : ExtCreate(p)
    \/ \E p \in Paths : ExtMkdir(p)
    \/ \E p \in Paths, sz \in Sizes, k \in 1..MaxBurst : ExtModify(p, sz, k)
    \/ \E p \in Paths : ExtDelete(p)
    \/ \E p \in Paths : ExtReplaceByDir(p)
    \/ \E p \in Paths, q \in Paths : ExtMove(p, q)
    \/ Tick

Watcher ==
    \/ Dispatch
    \/ add_file_read
    \/ add_file_commit
    \/ add_file_log
    \/ update_file_read
    \/ update_file_commit
    \/ update_file_log
    \/ remove_file_query
    \/ remove_file_commit
    \/ remove_file_log

Frontend ==
    \/ \E p \in Paths, sz \in Sizes : handle_file_upload(p, sz)
    \/ \E p \in Paths : create_new_folder(p)
    \/ \E file_id \in FileIds, file_path \in Paths : delete_file(file_id, file_path)
    \/ cleanup_deleted_files

Main ==
    \/ initialize_database
    \/ start_monitoring
    \/ start_frontend
    \/ keep_alive
    \/ stop_system
    \/ stop_system_join

Next == External \/ Watcher \/ Frontend \/ Main

Spec == Init /\ [][Next]_vars

\* --------------------------------------------- the store may be unavailable
\* session.commit() raises in a handler (the SQLite file is locked by the
\* other process, or cannot be opened): the except clause rolls back and
\* logs the error.  on_moved goes on with add_file(dest_path) after a
\* remove_file that failed.
add_file_commit_fails ==
    /\ alive /\ pc = "af_commit"
    /\ files' = files /\ caught
    /\ UNCHANGED <<fs, ops, file_events, queue, callbacks, sysVars>>
    /\ UNCHANGED <<home, watches, classifierVars>>
    /\ uiResult' = None /\ UNCHANGED <<trashed, last_applied>>

update_file_commit_fails ==
    /\ alive /\ pc = "uf_commit"
    /\ files' = files /\ caught
    /\ UNCHANGED <<fs, ops, file_events, queue, callbacks, sysVars>>
    /\ UNCHANGED <<home, watches, classifierVars>>
    /\ uiResult' = None /\ UNCHANGED <<trashed, last_applied>>

remove_file_commit_fails ==
    /\ alive /\ pc = "rf_commit"
    /\ files' = files
    /\ IF cur.kind = "moved" THEN after_remove ELSE caught
    /\ UNCHANGED <<fs, ops, file_events, queue, callbacks, sysVars>>
    /\ UNCHANGED <<home, watches, classifierVars>>
    /\ uiResult' = None /\ UNCHANGED <<trashed, last_applied>>

\* get_db_session returns None (its except clause): "if session:" skips
\* the write and the function returns as if it had been made
handle_file_upload_no_session(p, sz) ==
    /\ frontend /\ ops < MaxOps /\ room
    /\ IF isfile(p) THEN sz # fs[p].size ELSE sz = 1
    /\ ops' = ops + 1
    /\ IF upload_writes(p)
       THEN /\ fs' = [fs EXCEPT ![p] =
                        FileEntry(sz, now, IF isfile(p) THEN fs[p].ctime ELSE now)]
            /\ queue' = emit(queue, Notif(IF isfile(p) THEN "modified" ELSE "created",
                                          p, <<>>, FALSE))
       ELSE UNCHANGED <<fs, queue>>
    /\ files' = files
    /\ UNCHANGED <<file_events, handlerVars, processed_events, callbacks, sysVars>>
    /\ UNCHANGED <<home, watches, classifierVars>>
    /\ uiResult' = Result("upload", upload_writes(p), 0, NoCount)
    /\ last_applied' = last_applied
    /\ trashed' = IF upload_writes(p) THEN untrash(trashed, p) ELSE trashed

create_new_folder_no_session(p) ==
    /\ frontend /\ ops < MaxOps /\ room
    /\ ops' = ops + 1
    /\ IF folder_made(p)
       THEN /\ fs' = [fs EXCEPT ![p] = DirEntry]
            /\ queue' = IF exists(p) THEN queue
                        ELSE emit(queue, Notif("created", p, <<>>, TRUE))
       ELSE UNCHANGED <<fs, queue>>
    /\ files' = files
    /\ UNCHANGED <<file_events, handlerVars, processed_events, callbacks, sysVars>>
    /\ UNCHANGED <<home, watches, classifierVars>>
    /\ uiResult' = Result("folder", folder_made(p), 0, NoCount)
    /\ last_applied' = last_applied
    /\ trashed' = IF folder_made(p) THEN untrash(trashed, p) ELSE trashed

\* delete_file for a listed row whose path is not on disk, the branch that
\* needs a session
delete_file_no_session(file_id, file_path) ==
    /\ frontend /\ ops < MaxOps
    /\ \E r \in get_all_files : r.id = file_id /\ r.file_path = file_path
    /\ ~exists(file_path)
    /\ ops' = ops + 1
    /\ files' = files
    /\ UNCHANGED <<fs, queue, file_events, handlerVars, processed_events, callbacks,
                   sysVars>>
    /\ UNCHANGED <<home, watches, classifierVars>>
    /\ uiResult' = Result("delete", TRUE, 0, NoCount)
    /\ UNCHANGED <<trashed, last_applied>>

StoreFails ==
    \/ add_file_commit_fails
    \/ update_file_commit_fails
    \/ remove_file_commit_fails
    \/ \E p \in Paths, sz \in Sizes : handle_file_upload_no_session(p, sz)
    \/ \E p \in Paths : create_new_folder_no_session(p)
    \/ \E file_id \in FileIds, file_path \in Paths : delete_file_no_session(file_id, file_path)

NextFail == Next \/ StoreFails

SpecFail == Init /\ [][NextFail]_vars

\* ------------------------------------------- the classifier on its own
\* get_file_type reads its argument only.  The names: every string of at
\* most MaxLen characters over an alphabet that spells a known extension in
\* lower and in upper case (.txt), another one (.flv), and unknown ones.
Chars == {".", "t", "x", "T", "X", "f", "l", "v"}
Filenames == UNION {[1..n -> Chars] : n \in 0..MaxLen}

InitClassifier ==
    /\ fs = [p \in Paths |-> NoEntry]
    /\ files = {}
    /\ home = [f \in Folders |-> TRUE]
    /\ filename \in Filenames
    /\ NotStarted

\* category = db_manager.get_file_type(filename)
classify ==
    /\ category = None
    /\ category' = [returned |-> get_file_type(filename)]
    /\ UNCHANGED <<fs, ops, storeVars, watchVars, sysVars, ghostVars, home, watches,
                   filename>>

NextClassifier == classify

SpecClassifier == InitClassifier /\ [][NextClassifier]_vars

\* ------------------------------------------------ start-up on any home
\* The main thread alone, in a home directory where any of the folders to
\* watch may be missing.
InitFolders ==
    /\ fs = [p \in Paths |-> NoEntry]
    /\ files = {}
    /\ home \in [Folders -> BOOLEAN]
    /\ filename = <<>>
    /\ NotStarted

NextFolders == Main

SpecFolders == InitFolders /\ [][NextFolders]_vars

\* ------------------------------------------------------------------ claims
\* The three states of a path: a row and a file (Live), a row and no file
\* (Tombstoned: the rows get_deleted_files lists), no row (Untracked).
HasRecord(p) == RowsOf(files, p) # {}
Live(p) == HasRecord(p) /\ exists(p)
Tombstoned(p) == \E r \in get_deleted_files : r.file_path = p
Untracked(p) == ~HasRecord(p)

\* C1: a row whose file delete_file removed from disk stays in the table,
\* unchanged and listed by get_deleted_files, until a cleanup purges it (or
\* the path is on disk again), whatever the watcher does meanwhile.
C1_TrashKept == \A r \in trashed : r \in get_deleted_files

\* C2: when on_deleted's remove_file has found the row of the path, the row
\* is in the table afterwards, unchanged, and the handler appends exactly
\* one "deleted" entry to the log.
C2_DeletedTombstones ==
    [][/\ (cur.kind = "deleted" /\ pc = "rf_commit" /\ pc' = "rf_log" /\ existing \in files)
          => existing \in files'
       /\ (cur.kind = "deleted" /\ pc = "rf_log" /\ pc' = "idle" /\ main' = main)
          => file_events' = Append(file_events, LogEntry(cur.src, "deleted"))]_vars

\* C3: while on_moved applies the move of a path that had a row, the table
\* never holds a row for neither the old nor the new path.
C3_MoveNeverNeither ==
    (cur.kind = "moved" /\ pc \in {"rf_commit", "rf_log", "af_read"} /\ existing # None)
        => (HasRecord(cur.src) \/ HasRecord(cur.dest))

\* C4: the notifications one write raises for a path are applied to the
\* store once: update_file never commits the Modified transition for a
\* notification equal to the one it has committed last.
C4_BurstAppliedOnce ==
    [][(cur.kind = "modified" /\ pc = "uf_commit" /\ pc' = "uf_log") => last_applied # cur]_vars

\* C5: every step of on_created's add_file for a path that has a row and a
\* file leaves exactly one row for the path, with the access_count it had.
C5_CreatedIdempotent ==
    [][(cur.kind = "created" /\ pc \in {"af_read", "af_commit", "af_log"} /\ pc' # pc
          /\ Live(cur.src))
       => /\ Cardinality(RowsOf(files', cur.src)) = 1
          /\ \A r \in RowsOf(files, cur.src) : \A n \in RowsOf(files', cur.src) :
               n.id = r.id /\ n.access_count = r.access_count]_vars

\* on_created has committed the update of the row it found for a path that
\* is on disk
C5_Witness ==
    cur.kind = "created" /\ pc = "af_log" /\ existing # None /\ Live(cur.src)

\* C6: the steps of start_system (database, observer, frontend) keep every
\* row: after each, a row whose path is absent from disk is listed by
\* get_deleted_files and a row whose path is on disk is not.
C6_StartupKeepsRecords ==
    [][(main \in {"init", "db_ready", "monitoring"} /\ main' # main
          /\ main' \in {"db_ready", "monitoring", "frontend_up"})
       => \A r \in files :
            /\ r \in files'
            /\ (~exists(r.file_path)) => r \in get_deleted_files'
            /\ exists(r.file_path) => r \notin get_deleted_files']_vars

\* the system is up, nothing has happened since, and the table holds a row
\* whose file went away while the program was stopped and a row whose file
\* is there
C6_Witness ==
    /\ main = "frontend_up" /\ ops = 0 /\ file_events = <<>>
    /\ \E p \in Paths, q \in Paths : Tombstoned(p) /\ Live(q)

\* C7: once the observer has been started, and before anything else has
\* happened, every file on disk has a row.
C7_StartupIndexesFiles ==
    (main \in {"monitoring", "frontend_up"} /\ ops = 0)
        => \A p \in Paths : isfile(p) => HasRecord(p)

\* C8: cleanup_deleted_files deletes exactly the rows whose path is not on
\* disk, which get_all_files and get_deleted_files list no longer, reports
\* their number, and a cleanup that follows a cleanup at once deletes
\* nothing and reports 0.
C8_Purge ==
    [][(uiResult' # None /\ uiResult'.op = "cleanup")
       => /\ files' = {r \in files : exists(r.file_path)}
          /\ get_deleted_files' = {}
          /\ get_all_files' \cap get_deleted_files = {}
          /\ uiResult'.count = Cardinality(files \ files')
          /\ (uiResult # None /\ uiResult.op = "cleanup")
               => (files' = files /\ uiResult'.count = 0)]_vars

\* a cleanup that purged a row has been followed at once by a second one
C8_Witness ==
    uiResult # None /\ uiResult.op = "cleanup" /\ uiResult.before = 1 /\ uiResult.count = 0

\* C9: delete_file never takes a row whose path is absent from disk out of
\* the table.
C9_DeleteAbsentKeepsRecord ==
    [][(uiResult' # None /\ uiResult'.op = "delete")
       => \A r \in get_deleted_files : r \in files']_vars

\* C10: on_created's add_file for a path that has a file and no row inserts
\* exactly one row, with access_count 1, the size and the stamps of its
\* os.stat and the type of get_file_type, and then appends exactly one
\* "created" entry to the log.
C10_CreatedInserts ==
    [][/\ (cur.kind = "created" /\ pc = "af_commit" /\ existing = None
             /\ Untracked(cur.src) /\ pc' # pc /\ main' = main)
          => /\ pc' = "af_log"
             /\ files \subseteq files'
             /\ Cardinality(files' \ files) = 1
             /\ Cardinality(RowsOf(files', cur.src)) = 1
             /\ \A r \in files' \ files :
                  /\ r.file_path = cur.src
                  /\ r.access_count = 1
                  /\ r.file_size = st.size
                  /\ r.created_time = st.ctime
                  /\ r.modified_time = st.mtime
                  /\ r.file_type = get_file_type(cur.src)
       /\ (cur.kind = "created" /\ pc = "af_log" /\ existing = None
             /\ pc' # pc /\ main' = main)
          => /\ file_events' = Append(file_events, LogEntry(cur.src, "created"))
             /\ files' = files]_vars

\* on_created has inserted the row of a path it found untracked
C10_Witness ==
    /\ cur.kind = "created" /\ pc = "af_log" /\ existing = None
    /\ \E r \in RowsOf(files, cur.src) : r.access_count = 1 /\ r.file_size = st.size

\* C11: when on_modified's update_file commits for a path that is on disk and
\* whose row is the one it loaded, that row gets the size and the mtime the
\* file has now and an access_count one higher, keeps its other columns, all
\* other rows are unchanged, and the handler then appends exactly one
\* "modified" entry to the log.
C11_ModifiedUpdates ==
    [][/\ (cur.kind = "modified" /\ pc = "uf_commit" /\ pc' # pc /\ main' = main
             /\ exists(cur.src) /\ existing \in files)
          => /\ pc' = "uf_log"
             /\ \E n \in files' :
                  /\ files' = (files \ {existing}) \cup {n}
                  /\ n = [existing EXCEPT !.file_size = fs[cur.src].size,
                                          !.modified_time = fs[cur.src].mtime,
                                          !.last_accessed = n.last_accessed,
                                          !.access_count = existing.access_count + 1]
       /\ (cur.kind = "modified" /\ pc = "uf_log" /\ pc' # pc /\ main' = main)
          => /\ file_events' = Append(file_events, LogEntry(cur.src, "modified"))
             /\ files' = files]_vars

\* update_file has committed a rewrite that changed the size of the file
C11_Witness ==
    /\ cur.kind = "modified" /\ pc = "uf_log"
    /\ st.size # existing.file_size
    /\ \E r \in RowsOf(files, cur.src) :
         /\ r.id = existing.id /\ r.file_size = st.size
         /\ r.access_count = existing.access_count + 1

\* C12: when update_file or add_file, called for a Modified or Created
\* notification, finds that the path has a row and no file any more, the
\* handler does not return with nothing done: the row stays, as a
\* tombstone, and a "deleted" entry is appended to the log.
C12_VanishedIsDeleted ==
    [][(cur.kind \in {"modified", "created"} /\ pc \in {"uf_read", "af_read"}
          /\ pc' = "idle" /\ main' = main
          /\ HasRecord(cur.src) /\ ~exists(cur.src))
       => /\ file_events' = Append(file_events, LogEntry(cur.src, "deleted"))
          /\ \A r \in RowsOf(files, cur.src) : r \in get_deleted_files']_vars

\* C13: when on_created's add_file commits for a path that is on disk again
\* (the file is younger than the row's created_time), the commit succeeds,
\* the path keeps its one row, with the same id, and the row has the size
\* and the mtime of the stat.
C13_Resurrection ==
    [][\A r \in RowsOf(files, cur.src) :
         (cur.kind = "created" /\ pc = "af_commit" /\ pc' # pc /\ main' = main
            /\ exists(cur.src) /\ r.created_time < st.ctime)
         => /\ pc' = "af_log"
            /\ Cardinality(RowsOf(files', cur.src)) = 1
            /\ Cardinality(files') = Cardinality(files)
            /\ \A n \in RowsOf(files', cur.src) :
                 /\ n.id = r.id
                 /\ n.file_size = st.size /\ n.modified_time = st.mtime
                 /\ n \notin get_deleted_files']_vars

\* add_file has updated the row of a path whose file had gone and is back
C13_Witness ==
    /\ cur.kind = "created" /\ pc = "af_log" /\ existing # None
    /\ existing.created_time < st.ctime
    /\ \E r \in RowsOf(files, cur.src) : r.id = existing.id /\ r.modified_time = st.mtime
    /\ Live(cur.src)

\* C14: the table "files" changes only in a commit of add_file, update_file
\* or remove_file; no function of appp.py changes it.
C14_SingleWriter ==
    [][files' # files
       => /\ uiResult' = None
          /\ pc \in {"af_commit", "uf_commit", "rf_commit"} /\ pc' # pc]_vars

\* C15: what get_file_stats returns while the frontend is up is computed
\* from the rows whose path is on disk.
C15_StatsCountLive ==
    frontend => get_file_stats = stats_of(files \ get_deleted_files)

\* C16: a row that handle_file_upload inserts is the row of a file that this
\* upload has written (its size is the size written), and an upload that
\* has written nothing leaves the table unchanged.
C16_UploadWritesFirst ==
    [][(uiResult' # None /\ uiResult'.op = "upload")
       => /\ fs' = fs => files' = files
          /\ \A r \in files' \ files :
               /\ fs'[r.file_path].kind = "file"
               /\ fs'[r.file_path] # fs[r.file_path]
               /\ fs'[r.file_path].mtime = now
               /\ r.file_size = fs'[r.file_path].size
               /\ r.modified_time = fs'[r.file_path].mtime]_vars

\* an upload has written a file and inserted its row
C16_Witness ==
    /\ uiResult # None /\ uiResult.op = "upload" /\ uiResult.success
    /\ \E r \in files : /\ isfile(r.file_path) /\ r.last_accessed = ops
                        /\ r.modified_time = ops /\ r.access_count = 0

\* C17: a successful handle_file_upload for a path without a row leaves the
\* row add_file would have inserted (access_count 1 among its columns) and
\* appends a "created" entry to the log.
C17_UploadAsCreated ==
    [][\A p \in Paths, sz \in Sizes :
         (handle_file_upload(p, sz) /\ Untracked(p) /\ uiResult'.success)
         => /\ files' = files \cup {new_file_record(files, p, fs'[p], now)}
            /\ \A r \in RowsOf(files', p) : r.access_count = 1
            /\ file_events' = Append(file_events, LogEntry(p, "created"))]_vars

\* C18: when create_new_folder reports success the path is a directory and
\* has a row of type "folder" and size 0; for a directory that has such a
\* row already it reports success and the path keeps its one row.
C18_CreateFolder ==
    [][\A p \in Paths :
         create_new_folder(p)
         => /\ uiResult'.success
               => /\ fs'[p].kind = "dir"
                  /\ \E r \in RowsOf(files', p) : r.file_type = "folder" /\ r.file_size = 0
            /\ (isdir(p) /\ \E r \in RowsOf(files, p) : r.file_type = "folder")
               => /\ uiResult'.success
                  /\ Cardinality(RowsOf(files', p)) = 1]_vars

\* C19: every step leaves the entries the log holds where they are and as
\* they are; it can only append.
C19_LogAppendOnly ==
    [][/\ Len(file_events') >= Len(file_events)
       /\ SubSeq(file_events', 1, Len(file_events)) = file_events]_vars

\* the log holds entries of two handlers and the table has been written
\* by the frontend since
C19_Witness ==
    /\ Len(file_events) >= 2
    /\ uiResult # None /\ uiResult.op \in {"cleanup", "delete", "upload", "folder"}

\* C20: every entry of the log has an event_type among "created",
\* "modified", "deleted" and "moved".
C20_EventKinds ==
    \A i \in 1..Len(file_events) :
        file_events[i].event_type \in {"created", "modified", "deleted", "moved"}

\* C21: in every reachable state, whatever the interleaving of the watcher's
\* steps and the frontend's inserts, the table holds at most one row per path.
C21_PathUnique ==
    \A p \in Paths : Cardinality(RowsOf(files, p)) <= 1

\* an upload has just written the file of a path that has a row and its
\* INSERT was turned down; the watcher is between add_file's query and commit
C21_Witness ==
    /\ uiResult # None /\ uiResult.op = "upload" /\ ~uiResult.success
    /\ \E r \in files : isfile(r.file_path) /\ fs[r.file_path].mtime = ops
    /\ pc = "af_commit"

\* C22: a step of a watcher handler (Created, Modified, Deleted, Moved)
\* leaves every path that has a row with a row whose access_count is not less.
C22_AccessCountMonotonic ==
    [][(pc \in {"af_commit", "uf_commit", "rf_commit"} /\ pc' # pc /\ main' = main)
       => \A r \in files :
            \E n \in RowsOf(files', r.file_path) : n.access_count >= r.access_count]_vars

\* C23: the observer thread that finds a Deleted notification of a file
\* followed in its queue by the Created notification of another path takes
\* the two as one Moved event from the first path to the second.
C23_MoveDetection ==
    [][(/\ pc = "idle" /\ queue' # queue /\ main' = main
        /\ Len(queue) >= 2
        /\ queue[1].kind = "deleted" /\ queue[2].kind = "created"
        /\ ~queue[1].is_directory /\ ~queue[2].is_directory
        /\ queue[1].src # queue[2].src
        /\ queue[2].t - queue[1].t <= 1
        /\ Len(queue') < Len(queue))
       => /\ cur'.kind = "moved"
          /\ cur'.src = queue[1].src /\ cur'.dest = queue[2].src
          /\ queue' = Tail(Tail(queue))]_vars

\* the values of type_map and the default of type_map.get
Categories == {"document", "image", "video", "audio", "archive", "other"}

\* C24: for every name (empty, without extension, with an extension in upper
\* case, with an unknown extension) get_file_type returns one of the
\* categories, never an error, and it returns "other" when the extension in
\* lower case is no key of type_map.
C24_ClassifierTotal ==
    category # None
    => /\ category.returned \in Categories
       /\ lower(splitext(filename)) \notin type_map_keys => category.returned = "other"

\* a name whose extension is .TXT has been classified as a document
C24_Witness ==
    /\ category = [returned |-> "document"]
    /\ splitext(filename) = <<".", "T", "X", "T">>

\* C30: start_monitoring schedules every folder of folders_to_watch that
\* exists, logs a warning for every one that does not and schedules none of
\* these, and starts the observer whichever folders are missing.
C30_FoldersScheduled ==
    [][(main = "db_ready" /\ main' = "monitoring")
       => /\ \A f \in Folders :
               /\ home[f] => f \in watches'.scheduled
               /\ ~home[f] => f \notin watches'.scheduled /\ f \in watches'.not_found
          /\ observer' = "running"]_vars

\* monitoring has started with a folder scheduled that comes after a missing one
C30_Witness ==
    /\ observer = "running"
    /\ \E i \in 1..Len(folders_to_watch), j \in 1..Len(folders_to_watch) :
         /\ i < j
         /\ folders_to_watch[i] \in watches.not_found
         /\ folders_to_watch[j] \in watches.scheduled

\* the path whose row the handler's commit writes
committed_path == IF pc = "af_commit" THEN add_path ELSE cur.src

C26_PerPathAtomic ==
    pc \in {"af_commit", "uf_commit", "rf_commit"}
    => IF existing = None THEN Untracked(committed_path) ELSE existing \in files

\* C27: when the commit of a handler fails, the event is tried again (the
\* handler stays at its commit or the notification is queued again) or the
\* failure is passed to the callback; the handler does not just go on with
\* the table as it was.
C27_FailedWriteNotDropped ==
    [][(add_file_commit_fails \/ update_file_commit_fails \/ remove_file_commit_fails)
       => \/ pc' = pc
          \/ \E i \in 1..Len(queue') : queue'[i] = cur
          \/ callbacks' # callbacks]_vars

\* C28: when handle_file_upload or create_new_folder returns success the
\* table has a new row for the path, and when delete_file returns success
\* for a path that is not on disk the row with the given id is gone,
\* whether a session could be obtained or not.
C28_SuccessMeansWritten ==
    [][/\ \A p \in Paths, sz \in Sizes :
            ((handle_file_upload(p, sz) \/ handle_file_upload_no_session(p, sz))
             /\ uiResult'.success)
            => RowsOf(files', p) \ files # {}
       /\ \A p \in Paths :
            ((create_new_folder(p) \/ create_new_folder_no_session(p))
             /\ uiResult'.success)
            => RowsOf(files', p) \ files # {}
       /\ \A file_id \in FileIds, file_path \in Paths :
            ((delete_file(file_id, file_path) \/ delete_file_no_session(file_id, file_path))
             /\ uiResult'.success /\ ~exists(file_path))
            => \A r \in files' : r.id # file_id]_vars

\* the positions of the observer thread in a handler
HandlerPositions == {"idle", "af_read", "af_commit", "af_log", "uf_read", "uf_commit",
                     "uf_log", "rf_query", "rf_commit", "rf_log"}

C31_StopDrains ==
    [][(main = "stopping" /\ main' = "stopped") => (queue = <<>> /\ pc = "idle")]_vars

\* C32: the return of a handler does not discard a key of processed_events
\* that was built at the clock's present reading (a key that a notification
\* arriving now would still match); keys go by age only.
C32_ClearedByAge ==
    [][(pc # "idle" /\ pc' = "idle" /\ main' = main)
       => processed_events.fresh \subseteq processed_events'.fresh]_vars

\* C33: once the frontend is launched start_system stays in its keep-alive
\* loop, the observer running, until stop_system is called: the main thread
\* leaves the loop by stop_system only.
C33_KeepAlive ==
    [][(main = "frontend_up" /\ main' # main)
       => (main' = "stopping" /\ observer = "running")]_vars

\* C34: the file_type of every row that is not a folder's is the category
\* DatabaseManager.get_file_type gives for the row's path, whether add_file
\* or handle_file_upload (with appp.get_file_type) has inserted the row.
C34_SameCategory ==
    \A r \in files :
        r.file_type # "folder" => r.file_type = get_file_type(r.file_path)

\* the positions after a commit and those before it
LogPositions == {"af_log", "uf_log", "rf_log"}
CommitPositions == {"af_commit", "uf_commit", "rf_commit"}

\* C35: a handler appends to the log only after its commit went through,
\* and calls the callback only together with a log append; a commit that
\* fails and is rolled back leaves the table, the log and the callbacks as
\* they were.
C35_CommitLogCallback ==
    [][/\ file_events' # file_events => pc \in LogPositions
       /\ callbacks' # callbacks
          => (pc \in LogPositions /\ Len(file_events') = Len(file_events) + 1)
       /\ (pc' \in LogPositions /\ pc' # pc)
          => \/ /\ pc = "af_commit" /\ pc' = "af_log"
                /\ IF existing = None
                   THEN RowsOf(files', add_path) \ files # {}
                   ELSE \E r \in files' : r.id = existing.id
             \/ /\ pc = "uf_commit" /\ pc' = "uf_log"
                /\ \E r \in files' : r.id = existing.id
             \/ /\ pc = "rf_commit" /\ pc' = "rf_log"
                /\ \A r \in files' : r.id # existing.id
       /\ (pc \in CommitPositions /\ pc' # pc /\ pc' \notin LogPositions /\ main' = main)
          => (files' = files /\ file_events' = file_events /\ callbacks' = callbacks)]_vars

\* one transition has been committed, logged and called back, and add_file
\* is about to commit an INSERT that the unique index will turn down
C35_Witness ==
    /\ file_events # <<>> /\ callbacks # <<>>
    /\ pc = "af_commit" /\ existing = None /\ HasRecord(add_path)

\* C36: update_file for a regular file that has no row goes on in add_file;
\* add_file's INSERT gives the path one row with access_count 1, and the
\* log entry and the callback that follow say "created".
C36_ModifiedCreates ==
    [][(cur.kind = "modified" /\ main' = main /\ pc' # pc)
       => /\ (pc = "uf_read" /\ isfile(cur.src) /\ Untracked(cur.src)) => pc' = "af_read"
          /\ (pc = "af_commit" /\ pc' = "af_log" /\ existing = None)
             => /\ Cardinality(RowsOf(files', cur.src)) = 1
                /\ \A r \in RowsOf(files', cur.src) : r.access_count = 1
          /\ (pc = "af_log" /\ existing = None)
             => /\ file_events' = Append(file_events, LogEntry(cur.src, "created"))
                /\ callbacks' = Append(callbacks, <<"created", cur.src>>)]_vars

\* a Modified event has inserted the row of its path and is about to log
C36_Witness ==
    /\ pc = "af_log" /\ cur.kind = "modified" /\ existing = None
    /\ \E r \in RowsOf(files, cur.src) : r.access_count = 1

\* C37: remove_file for a Deleted event whose path has no row returns with
\* the table, the log and the callbacks as they were.
C37_DeletedUntracked ==
    [][(/\ pc = "rf_query" /\ cur.kind = "deleted" /\ Untracked(cur.src)
        /\ pc' # pc /\ main' = main)
       => /\ pc' = "idle"
          /\ files' = files /\ file_events' = file_events /\ callbacks' = callbacks]_vars

\* on_deleted has called remove_file for a path that has no row, while
\* the other path has one
C37_Witness ==
    /\ pc = "rf_query" /\ cur.kind = "deleted" /\ Untracked(cur.src)
    /\ files # {}

\* C38: handle_file_upload for a path that has a row returns failure and
\* leaves the table as it is, one row for the path; unless the path is a
\* directory the bytes are on disk all the same.
C38_UploadDuplicate ==
    [][\A p \in Paths, sz \in Sizes :
         (handle_file_upload(p, sz) /\ HasRecord(p))
         => /\ ~uiResult'.success
            /\ files' = files
            /\ ~isdir(p) => (fs'[p].kind = "file" /\ fs'[p].size = sz)]_vars

\* an upload for a path that has a row has failed and its bytes are on disk
C38_Witness ==
    /\ uiResult # None /\ uiResult.op = "upload" /\ ~uiResult.success
    /\ \E r \in files : isfile(r.file_path) /\ fs[r.file_path].mtime = ops

\* C39: a commit of add_file or update_file that changes the table writes
\* the row of a path that is no directory on disk, and never a row of type
\* "folder": no watcher event inserts or updates the row of a directory.
C39_NoDirectoryRecords ==
    [][(pc \in {"af_commit", "uf_commit"} /\ pc' # pc /\ main' = main /\ files' # files)
       => /\ ~isdir(committed_path)
          /\ \A r \in files' \ files : r.file_type # "folder"]_vars

====
